---- MODULE Spec2Model ----
(***************************************************************************)
(* Output containers of hummingbird/ml/_container.py: the containers that  *)
(* mirror the Sklearn API (transform, predict, predict_proba,              *)
(* decision_function, score_samples) over a PyTorch, TorchScript or ONNX   *)
(* model.                                                                  *)
(*                                                                         *)
(* Python values are records [kind, shape, flat, items, base]:             *)
(*   kind   "ndarray", "tensor", "frame" (a pandas DataFrame whose columns *)
(*          carry string labels), "list" (a Python list or tuple), "none", *)
(*          or the name of the exception an expression raised;             *)
(*   shape  the array's shape, flat its elements in row-major order;       *)
(*   items  the elements of a list or tuple;                               *)
(*   base   "own" when the array owns its buffer, "model" when it is a     *)
(*          view of memory the wrapped model owns.                         *)
(* Scores are integers: the model keeps additions exact and leaves         *)
(* floating-point rounding out.                                            *)
(***************************************************************************)
EXTENDS Integers, Sequences, FiniteSets, TLC

VARIABLES
    containers,    \* the containers constructed so far, in construction order
    interop,       \* torch's process-wide number of inter-op threads
    numThreads,    \* torch's process-wide number of intra-op threads
    last           \* the constructor or prediction call that has just ended

vars == <<containers, interop, numThreads, last>>

(***************************************************************************)
(* Bounds of the exploration.                                              *)
(***************************************************************************)
MaxThreads == 2
MaxInputs == 3
MaxRows == 2
MaxContainers == 2
MaxOutputs == 3

(***************************************************************************)
(* Keys of extra_config.                                                   *)
(***************************************************************************)
IFOREST_THRESHOLD == "iforest_threshold"
OFFSET == "offset"

(***************************************************************************)
(* Python values.                                                          *)
(***************************************************************************)
None == <<>>

Errors ==
    {"AssertionError", "IndexError", "KeyError", "RuntimeError", "TypeError",
     "AttributeError", "BackendError"}

Err(e) == [kind |-> e, shape |-> <<>>, flat |-> <<>>, items |-> <<>>, base |-> "own"]

IsErr(v) == v.kind \in Errors

NoValue == [kind |-> "none", shape |-> <<>>, flat |-> <<>>, items |-> <<>>, base |-> "own"]

NdArray(shape, flat) ==
    [kind |-> "ndarray", shape |-> shape, flat |-> flat, items |-> <<>>, base |-> "own"]

Tensor(shape, flat) ==
    [kind |-> "tensor", shape |-> shape, flat |-> flat, items |-> <<>>, base |-> "own"]

DataFrame(shape, flat) ==
    [kind |-> "frame", shape |-> shape, flat |-> flat, items |-> <<>>, base |-> "own"]

PyList(items) ==
    [kind |-> "list", shape |-> <<>>, flat |-> <<>>, items |-> items, base |-> "own"]

IsArray(v) == v.kind \in {"ndarray", "tensor"}

RECURSIVE Prod(_)
Prod(s) == IF s = <<>> THEN 1 ELSE Head(s) * Prod(Tail(s))

RECURSIVE SumSeq(_)
SumSeq(s) == IF s = <<>> THEN 0 ELSE Head(s) + SumSeq(Tail(s))

RECURSIVE NpElements(_)
RECURSIVE ConcatFlats(_)
\* The elements np.array finds in v, in row-major order: None is one element
\* (an object), a list or tuple gives its items' elements one after the other.
NpElements(v) ==
    IF v.kind = "none" THEN <<None>>
    ELSE IF v.kind = "list" THEN ConcatFlats(v.items)
    ELSE v.flat

ConcatFlats(items) ==
    IF items = <<>> THEN <<>> ELSE NpElements(Head(items)) \o ConcatFlats(Tail(items))

RECURSIVE NpShape(_)
\* The shape np.array gives v: no dimension for None, one more dimension than
\* its items for a list or tuple (whose items have one shape).
NpShape(v) ==
    IF v.kind = "none" THEN <<>>
    ELSE IF v.kind = "list"
    THEN <<Len(v.items)>> \o (IF v.items = <<>> THEN <<>> ELSE NpShape(Head(v.items)))
    ELSE v.shape

\* len(v): [err, len], err being "TypeError" when v has no length (None, an
\* array of no dimension) and "" otherwise.
PyLen(v) ==
    IF v.kind = "list" THEN [err |-> "", len |-> Len(v.items)]
    ELSE IF v.kind = "none" \/ v.shape = <<>> THEN [err |-> "TypeError", len |-> 0]
    ELSE [err |-> "", len |-> v.shape[1]]

\* v[i], i counted from 0: an element of a list or tuple, the i-th slice of an
\* array along its first axis (a view), the column labelled i of a DataFrame.
GetItem(v, i) ==
    IF IsErr(v) THEN v
    ELSE IF v.kind = "list"
    THEN IF i < Len(v.items) THEN v.items[i + 1] ELSE Err("IndexError")
    ELSE IF v.kind = "frame" THEN Err("KeyError")
    ELSE IF v.kind = "none" THEN Err("TypeError")
    ELSE IF v.shape = <<>> \/ i >= v.shape[1] THEN Err("IndexError")
    ELSE LET w == Prod(Tail(v.shape))
         IN  [v EXCEPT !.shape = Tail(v.shape),
                       !.flat = SubSeq(v.flat, i * w + 1, (i + 1) * w)]

\* np.array(v): a new array holding v's elements; np.array(None) is an array
\* of no dimension holding the one element None.
NpArray(v) ==
    IF IsErr(v) THEN v
    ELSE NdArray(NpShape(v), NpElements(v))

\* tensor.cpu().numpy(): the host array sharing the tensor's memory.
CpuNumpy(v) ==
    IF IsErr(v) THEN v
    ELSE IF v.kind = "tensor" THEN [v EXCEPT !.kind = "ndarray"]
    ELSE Err("AttributeError")

FlattenView(a) ==
    IF IsErr(a) THEN a
    ELSE IF a.kind # "ndarray" THEN Err("AttributeError")
    ELSE [a EXCEPT !.shape = <<Len(a.flat)>>]

\* ndarray.flatten(): a copy of the array collapsed into one dimension.
Flatten(a) ==
    IF IsErr(a) THEN a
    ELSE IF a.kind # "ndarray" THEN Err("AttributeError")
    ELSE NdArray(<<Len(a.flat)>>, a.flat)

\* array + scalar: a new array.
AddScalar(a, s) ==
    IF IsErr(a) THEN a
    ELSE NdArray(a.shape, [i \in 1..Len(a.flat) |-> a.flat[i] + s])

\* torch.from_numpy(a).float()
FromNumpyFloat(a) == Tensor(a.shape, a.flat)

(***************************************************************************)
(* The wrapped model.  A model is [nIn, nOut, bias]: it takes nIn          *)
(* two-dimensional inputs with the same number of rows and gives nOut      *)
(* outputs of one column each; row i of output j holds j times the sum of  *)
(* the inputs' i-th rows, plus bias.  Anything else is rejected            *)
(* ("BackendError").                                                       *)
(***************************************************************************)
ModelAccepts(model, args) ==
    /\ Len(args) = model.nIn
    /\ \A i \in 1..Len(args) : IsArray(args[i]) /\ Len(args[i].shape) = 2
    /\ \A i \in 1..Len(args) : args[i].shape[1] = args[1].shape[1]

RowSum(args, i) ==
    SumSeq([a \in 1..Len(args) |-> SumSeq(GetItem(args[a], i - 1).flat)])

ModelOutput(model, args, j, kind, base) ==
    [kind |-> kind,
     shape |-> <<args[1].shape[1], 1>>,
     flat |-> [i \in 1..args[1].shape[1] |-> j * RowSum(args, i) + model.bias],
     items |-> <<>>,
     base |-> base]

\* self.model.forward(*inputs): one tensor when the model has a single output,
\* a tuple of tensors otherwise; the tensors are the model's own memory.
Forward(model, args) ==
    IF ~ModelAccepts(model, args) THEN Err("BackendError")
    ELSE IF model.nOut = 1 THEN ModelOutput(model, args, 1, "tensor", "model")
    ELSE PyList([j \in 1..model.nOut |-> ModelOutput(model, args, j, "tensor", "model")])

InputName(i) == <<"input", i>>
OutputName(j) == <<"output", j>>

\* self._session.run(names, named_inputs): the list of the requested outputs,
\* as arrays the caller owns.
SessionRun(c, names, named) ==
    LET args == [i \in 1..c.model.nIn |-> named[InputName(i)]]
    IN  IF \E t \in 1..Len(names) : names[t][2] > c.model.nOut THEN Err("BackendError")
        ELSE IF ~ModelAccepts(c.model, args) THEN Err("BackendError")
        ELSE PyList([t \in 1..Len(names) |->
                        ModelOutput(c.model, args, names[t][2], "ndarray", "own")])

(***************************************************************************)
(* A prediction call gives [value, ran, fed, model]: what it returns (or   *)
(* the exception it raises), whether the backend was run, what the backend *)
(* was handed, and the wrapped model after the call.                       *)
(***************************************************************************)
Result(value, ran, fed, model) ==
    [value |-> value, ran |-> ran, fed |-> fed, model |-> model]

\* scores += s: the addition is written into the buffer scores refers to.
InPlaceAdd(model, scores, s) ==
    [value |-> [scores EXCEPT !.flat = [i \in 1..Len(scores.flat) |-> scores.flat[i] + s]],
     model |-> IF scores.base = "model" THEN [model EXCEPT !.bias = @ + s] ELSE model]

(***************************************************************************)
(* PyTorch containers.                                                     *)
(***************************************************************************)
TorchTransform(c, args) ==
    Result(CpuNumpy(Forward(c.model, args)), TRUE, args, c.model)

TorchPredict(c, args) ==
    LET out == Forward(c.model, args)
    IN  Result(IF c.is_regression THEN Flatten(CpuNumpy(out))
               ELSE IF c.is_anomaly_detection THEN Flatten(CpuNumpy(GetItem(out, 0)))
               ELSE CpuNumpy(GetItem(out, 0)),
               TRUE, args, c.model)

TorchPredictProba(c, args) ==
    Result(CpuNumpy(GetItem(Forward(c.model, args), 1)), TRUE, args, c.model)

TorchDecisionFunction(c, args) ==
    LET scores == Flatten(CpuNumpy(GetItem(Forward(c.model, args), 1)))
    IN  IF IsErr(scores) THEN Result(scores, TRUE, args, c.model)
        ELSE IF IFOREST_THRESHOLD \in DOMAIN c.extra_config
        THEN LET r == InPlaceAdd(c.model, scores, c.extra_config[IFOREST_THRESHOLD])
             IN  Result(r.value, TRUE, args, r.model)
        ELSE Result(scores, TRUE, args, c.model)

TorchScoreSamplesNoOffset(c, args) ==
    TorchDecisionFunction(c, args)

TorchScoreSamples(c, args) ==
    LET d == TorchDecisionFunction(c, args)
    IN  IF IsErr(d.value) THEN d
        ELSE IF OFFSET \notin DOMAIN c.extra_config
        THEN [d EXCEPT !.value = Err("KeyError")]
        ELSE [d EXCEPT !.value = AddScalar(d.value, c.extra_config[OFFSET])]

TorchCall(c, op, args) ==
    CASE op = "transform" -> TorchTransform(c, args)
      [] op = "predict" -> TorchPredict(c, args)
      [] op = "predict_proba" -> TorchPredictProba(c, args)
      [] op = "decision_function" -> TorchDecisionFunction(c, args)
      [] op = "score_samples" -> TorchScoreSamples(c, args)

(***************************************************************************)
(* TorchScript containers.                                                 *)
(***************************************************************************)
\* The columns of a DataFrame, each as an array of one column.
SplitColumns(df) ==
    LET r == df.shape[1]
        w == df.shape[2]
    IN  [j \in 1..w |-> NdArray(<<r, 1>>, [i \in 1..r |-> df.flat[(i - 1) * w + j]])]

\* The first position whose input is neither an ndarray nor a tensor, or 0.
FirstUnsupported(inputs) ==
    IF \E i \in 1..Len(inputs) : ~IsArray(inputs[i])
    THEN CHOOSE i \in 1..Len(inputs) :
            /\ ~IsArray(inputs[i])
            /\ \A j \in 1..(i - 1) : IsArray(inputs[j])
    ELSE 0

\* _torchscript_wrapper(device, function, *inputs), function being the PyTorch
\* container's method op.  inputs = [*inputs] is a list, never a DataFrame.
\* Moving a tensor to the model's device does not change its elements.
TorchscriptWrapper(c, op, inputs) ==
    LET lst == PyList(inputs)
        ins == IF lst.kind = "frame" THEN SplitColumns(GetItem(lst, 0)) ELSE lst.items
    IN  IF FirstUnsupported(ins) # 0 THEN Result(Err("RuntimeError"), FALSE, <<>>, c.model)
        ELSE TorchCall(c, op,
                       [i \in 1..Len(ins) |->
                           IF ins[i].kind = "ndarray" THEN FromNumpyFloat(ins[i]) ELSE ins[i]])

(***************************************************************************)
(* ONNX containers.                                                        *)
(***************************************************************************)
\* The position of the last occurrence of name in names.
LastIndex(names, name) ==
    CHOOSE i \in 1..Len(names) :
        /\ names[i] = name
        /\ \A j \in (i + 1)..Len(names) : names[j] # name

NamedInputs(err, named) == [err |-> err, named |-> named]

\* _get_named_inputs(self, inputs): [err, named], err naming the exception
\* raised ("" when none is) and named the mapping from input name to array.
GetNamedInputs(c, inputs) ==
    LET n == Len(c.input_names)
        tup == PyList(inputs)
        u == IF Len(inputs) < n THEN GetItem(tup, 0) ELSE tup
        elems == [i \in 1..n |-> NpArray(GetItem(u, i - 1))]
    IN  IF IsErr(u) THEN NamedInputs(u.kind, <<>>)
        ELSE IF PyLen(u).err # "" THEN NamedInputs(PyLen(u).err, <<>>)
        ELSE IF PyLen(u).len # n THEN NamedInputs("AssertionError", <<>>)
        ELSE IF \E i \in 1..n : IsErr(elems[i])
        THEN NamedInputs(elems[CHOOSE i \in 1..n :
                                   IsErr(elems[i]) /\ \A j \in 1..(i - 1) : ~IsErr(elems[j])].kind,
                         <<>>)
        ELSE NamedInputs("",
                 [name \in {c.input_names[i] : i \in 1..n} |->
                     elems[LastIndex(c.input_names, name)]])

\* [self._output_names[i]], i counted from 0, as the list of names to run.
OutputNameAt(c, i) ==
    IF i < Len(c.output_names) THEN <<c.output_names[i + 1]>> ELSE <<>>

\* The body of an ONNX method once the named inputs are built: names are the
\* outputs asked of the session ("IndexError" when the subscript fails),
\* post the method's handling of what the session returns.
OnnxRun(c, named, names, indexError) ==
    IF indexError THEN Result(Err("IndexError"), FALSE, <<>>, c.model)
    ELSE Result(SessionRun(c, names, named), TRUE, named, c.model)

OnnxTransform(c, inputs) ==
    LET ni == GetNamedInputs(c, inputs)
    IN  IF ni.err # "" THEN Result(Err(ni.err), FALSE, <<>>, c.model)
        ELSE OnnxRun(c, ni.named, c.output_names, FALSE)

OnnxPredict(c, inputs) ==
    LET ni == GetNamedInputs(c, inputs)
        first == OutputNameAt(c, 0)
        r == IF c.is_regression THEN OnnxRun(c, ni.named, c.output_names, FALSE)
             ELSE OnnxRun(c, ni.named, first, first = <<>>)
    IN  IF ni.err # "" THEN Result(Err(ni.err), FALSE, <<>>, c.model)
        ELSE IF c.is_regression THEN r
        ELSE IF c.is_anomaly_detection
        THEN [r EXCEPT !.value = Flatten(GetItem(NpArray(@), 0))]
        ELSE [r EXCEPT !.value = GetItem(@, 0)]

OnnxPredictProba(c, inputs) ==
    LET ni == GetNamedInputs(c, inputs)
        second == OutputNameAt(c, 1)
        r == OnnxRun(c, ni.named, second, second = <<>>)
    IN  IF ni.err # "" THEN Result(Err(ni.err), FALSE, <<>>, c.model)
        ELSE [r EXCEPT !.value = GetItem(@, 0)]

OnnxDecisionFunctionAlwaysShift(c, inputs) ==
    LET ni == GetNamedInputs(c, inputs)
        second == OutputNameAt(c, 1)
        r == OnnxRun(c, ni.named, second, second = <<>>)
        scores == Flatten(NpArray(GetItem(r.value, 0)))
        shift == IF IFOREST_THRESHOLD \in DOMAIN c.extra_config
                 THEN c.extra_config[IFOREST_THRESHOLD] ELSE 1
    IN  IF ni.err # "" THEN Result(Err(ni.err), FALSE, <<>>, c.model)
        ELSE IF IsErr(scores) THEN [r EXCEPT !.value = scores]
        ELSE LET a == InPlaceAdd(r.model, scores, shift)
             IN  [r EXCEPT !.value = a.value, !.model = a.model]

OnnxDecisionFunction(c, inputs) ==
    LET ni == GetNamedInputs(c, inputs)
        second == OutputNameAt(c, 1)
        r == OnnxRun(c, ni.named, second, second = <<>>)
        scores == Flatten(NpArray(GetItem(r.value, 0)))
    IN  IF ni.err # "" THEN Result(Err(ni.err), FALSE, <<>>, c.model)
        ELSE IF IsErr(scores) THEN [r EXCEPT !.value = scores]
        ELSE IF IFOREST_THRESHOLD \in DOMAIN c.extra_config
        THEN LET a == InPlaceAdd(r.model, scores, c.extra_config[IFOREST_THRESHOLD])
             IN  [r EXCEPT !.value = a.value, !.model = a.model]
        ELSE [r EXCEPT !.value = scores]

OnnxScoreSamples(c, inputs) ==
    LET d == OnnxDecisionFunction(c, inputs)
    IN  IF IsErr(d.value) THEN d
        ELSE IF OFFSET \notin DOMAIN c.extra_config
        THEN [d EXCEPT !.value = Err("KeyError")]
        ELSE [d EXCEPT !.value = AddScalar(d.value, c.extra_config[OFFSET])]

OnnxCall(c, op, inputs) ==
    CASE op = "transform" -> OnnxTransform(c, inputs)
      [] op = "predict" -> OnnxPredict(c, inputs)
      [] op = "predict_proba" -> OnnxPredictProba(c, inputs)
      [] op = "decision_function" -> OnnxDecisionFunction(c, inputs)
      [] op = "score_samples" -> OnnxScoreSamples(c, inputs)

(***************************************************************************)
(* Construction.  A constructor call is cfg = [backend, cls, n_threads,    *)
(* batch_size, extra_config, model]; cls names the container class         *)
(* (Transformer, Regression, Classification, AnomalyDetection).            *)
(***************************************************************************)
\* The pairs <<is_regression, is_anomaly_detection>> the Regression container's
\* __init__ can be given: any pair by the caller of a Regression container
\* (the defaults being TRUE, FALSE), the pair the class passes for a
\* Classification or an AnomalyDetection container.  A Transformer has no flags.
Flags(cls) ==
    CASE cls = "Regression" -> BOOLEAN \X BOOLEAN
      [] cls = "Classification" -> {<<FALSE, FALSE>>}
      [] cls = "AnomalyDetection" -> {<<FALSE, TRUE>>}
      [] OTHER -> {<<FALSE, FALSE>>}

\* SklearnContainer.__init__, with the attributes the subclasses add.
Container(cfg, session, output_names, input_names) ==
    [backend |-> cfg.backend,
     cls |-> cfg.cls,
     model |-> cfg.model,
     n_threads |-> cfg.n_threads,
     batch_size |-> cfg.batch_size,
     extra_config |-> cfg.extra_config,
     is_regression |-> cfg.is_regression,
     is_anomaly_detection |-> cfg.is_anomaly_detection,
     session |-> session,
     output_names |-> output_names,
     input_names |-> input_names]

Outcome(status, container, ip, nt) ==
    [status |-> status, container |-> container, interop |-> ip, numThreads |-> nt]

TorchThreadsKeepInterop(n_threads, ip, nt) ==
    IF n_threads = None THEN [status |-> "AssertionError", interop |-> ip, numThreads |-> nt]
    ELSE [status |-> "ok", interop |-> ip, numThreads |-> n_threads[1]]

TorchThreadsKeepIntraOp(n_threads, ip, nt) ==
    IF n_threads = None THEN [status |-> "AssertionError", interop |-> ip, numThreads |-> nt]
    ELSE [status |-> "ok", interop |-> 1, numThreads |-> nt]

\* PyTorchTorchscriptSklearnContainer.__init__ on torch's process-wide thread
\* settings ip (inter-op) and nt (intra-op).
TorchThreads(n_threads, ip, nt) ==
    IF n_threads = None THEN [status |-> "AssertionError", interop |-> ip, numThreads |-> nt]
    ELSE [status |-> "ok",
          interop |-> IF ip # 1 THEN 1 ELSE ip,
          numThreads |-> n_threads[1]]

\* PyTorch and TorchScript containers: the base __init__, then the Regression
\* container's assertion on its two flags, which fails after the base __init__
\* has changed torch's thread settings.
TorchInit(cfg, ip, nt) ==
    LET t == TorchThreads(cfg.n_threads, ip, nt)
    IN  IF t.status # "ok" THEN Outcome(t.status, None, t.interop, t.numThreads)
        ELSE IF cfg.cls # "Transformer" /\ cfg.is_regression /\ cfg.is_anomaly_detection
        THEN Outcome("AssertionError", None, t.interop, t.numThreads)
        ELSE Outcome("ok", Container(cfg, None, <<>>, <<>>), t.interop, t.numThreads)

\* ort.SessionOptions()
SessionOptions ==
    [intra_op_num_threads |-> 0, inter_op_num_threads |-> 0,
     execution_mode |-> "ORT_SEQUENTIAL"]

\* The session options ONNXSklearnContainer.__init__ builds.
OnnxSessionOptions(n_threads) ==
    IF n_threads # None
    THEN [SessionOptions EXCEPT !.intra_op_num_threads = n_threads[1],
                                !.inter_op_num_threads = 1,
                                !.execution_mode = "ORT_SEQUENTIAL"]
    ELSE SessionOptions

OnnxTransformerCheck(cfg) == cfg.model.nOut = 1

OnnxRegressionCheck(cfg) ==
    /\ ~(cfg.is_regression /\ cfg.is_anomaly_detection)
    /\ cfg.is_regression => cfg.model.nOut = 1

OnnxClassificationCheck(cfg) == cfg.model.nOut = 2

OnnxAnomalyDetectionCheck(cfg) == cfg.model.nOut = 2

\* ONNX containers: the base __init__, then the assertions of the class.
OnnxInit(cfg, ip, nt, ort) ==
    LET c == Container(cfg, OnnxSessionOptions(cfg.n_threads),
                       [j \in 1..cfg.model.nOut |-> OutputName(j)],
                       [i \in 1..cfg.model.nIn |-> InputName(i)])
        holds == IF cfg.cls = "Transformer" THEN OnnxTransformerCheck(cfg)
                 ELSE /\ OnnxRegressionCheck(cfg)
                      /\ cfg.cls = "Classification" => OnnxClassificationCheck(cfg)
                      /\ cfg.cls = "AnomalyDetection" => OnnxAnomalyDetectionCheck(cfg)
    IN  IF ~ort THEN Outcome("RuntimeError", None, ip, nt)
        ELSE IF ~holds THEN Outcome("AssertionError", None, ip, nt)
        ELSE Outcome("ok", c, ip, nt)

ConstructOutcome(cfg, ip, nt, ort) ==
    IF cfg.backend = "onnx" THEN OnnxInit(cfg, ip, nt, ort) ELSE TorchInit(cfg, ip, nt)

\* The methods each container class has.
LegalOps(cls) ==
    CASE cls = "Transformer" -> {"transform"}
      [] cls = "Regression" -> {"predict"}
      [] cls = "Classification" -> {"predict", "predict_proba"}
      [] cls = "AnomalyDetection" -> {"predict", "decision_function", "score_samples"}

\* container.op(*inputs)
Invoke(c, op, inputs) ==
    IF c.backend = "onnx" THEN OnnxCall(c, op, inputs)
    ELSE IF c.backend = "torchscript" THEN TorchscriptWrapper(c, op, inputs)
    ELSE TorchCall(c, op, inputs)

\* The intra-op thread pool a prediction call of c runs on.
EffectiveThreads(c, nt) ==
    IF c.backend = "onnx" THEN c.session.intra_op_num_threads ELSE nt

(***************************************************************************)
(* The inputs explored.                                                    *)
(***************************************************************************)
Backends == {"torch", "torchscript", "onnx"}
Classes == {"Transformer", "Regression", "Classification", "AnomalyDetection"}
ThreadCounts == {None} \cup {<<n>> : n \in 1..MaxThreads}
Models == [nIn : 1..MaxInputs, nOut : 1..MaxOutputs, bias : {0}]

ExtraConfigs(cls) ==
    IF cls = "AnomalyDetection"
    THEN {<<>>, (OFFSET :> 5), (IFOREST_THRESHOLD :> (0 - 1)),
          (OFFSET :> 5) @@ (IFOREST_THRESHOLD :> (0 - 1))}
    ELSE {<<>>}

Configs ==
    UNION {[backend : Backends, cls : {cls}, n_threads : ThreadCounts,
            batch_size : {None}, extra_config : ExtraConfigs(cls), model : Models,
            is_regression : {f[1]}, is_anomaly_detection : {f[2]}]
           : <<cls, f>> \in {<<c, g>> \in Classes \X (BOOLEAN \X BOOLEAN) : g \in Flags(c)}}

Column(r, seed) == [i \in 1..r |-> seed + i]

\* k arrays, or k tensors, of r rows and one column.
ArrayInputs ==
    {[j \in 1..k |->
        [kind |-> kind, shape |-> <<r, 1>>, flat |-> Column(r, j),
         items |-> <<>>, base |-> "own"]]
     : k \in 0..MaxInputs, kind \in {"ndarray", "tensor"}, r \in 1..MaxRows}

\* One DataFrame of r rows and w columns.
FrameInputs ==
    {<<DataFrame(<<r, w>>, [i \in 1..(r * w) |-> i])>> : r \in 1..MaxRows, w \in 1..MaxInputs}

\* One list of m arrays of r rows and one column.
ListInputs ==
    {<<PyList([j \in 1..m |-> NdArray(<<r, 1>>, Column(r, j))])>>
     : m \in 1..MaxInputs, r \in 1..MaxRows}

\* One input that has no length: None, an array of no dimension.
UnsizedInputs == {<<NoValue>>, <<NdArray(<<>>, <<5>>)>>}

Inputs == ArrayInputs \cup FrameInputs \cup ListInputs \cup UnsizedInputs

(***************************************************************************)
(* The state machine.                                                      *)
(***************************************************************************)
NoCall ==
    [op |-> "none", cid |-> 0, cfg |-> <<>>, ort |-> TRUE, inputs |-> <<>>, status |-> "ok",
     value |-> NoValue, ran |-> FALSE, fed |-> <<>>, threads |-> 0]

Init ==
    /\ containers = <<>>
    /\ interop \in {1, MaxThreads}
    /\ numThreads = MaxThreads
    /\ last = NoCall

\* A constructor call; ort is what onnx_runtime_installed() answers.
Construct(cfg, ort) ==
    /\ last.op = "none"
    /\ LET r == ConstructOutcome(cfg, interop, numThreads, ort)
       IN  /\ containers' = IF r.status = "ok" THEN Append(containers, r.container)
                            ELSE containers
           /\ interop' = r.interop
           /\ numThreads' = r.numThreads
           /\ last' = [NoCall EXCEPT !.op = "construct",
                                     !.cid = IF r.status = "ok" THEN Len(containers) + 1 ELSE 0,
                                     !.cfg = cfg,
                                     !.ort = ort,
                                     !.status = r.status]

\* A prediction call on the i-th container.
Call(i, op, inputs) ==
    /\ last.op = "none"
    /\ i \in DOMAIN containers
    /\ op \in LegalOps(containers[i].cls)
    /\ \E r \in {Invoke(containers[i], op, inputs)} :
           /\ containers' = [containers EXCEPT ![i].model = r.model]
           /\ last' = [NoCall EXCEPT !.op = op,
                                     !.cid = i,
                                     !.inputs = inputs,
                                     !.status = IF IsErr(r.value) THEN r.value.kind ELSE "ok",
                                     !.value = IF IsErr(r.value) THEN NoValue ELSE r.value,
                                     !.ran = r.ran,
                                     !.fed = r.fed,
                                     !.threads = EffectiveThreads(containers[i], numThreads)]
    /\ UNCHANGED <<interop, numThreads>>

\* The caller takes the outcome of the call that has just ended.
Return ==
    /\ last.op # "none"
    /\ last' = NoCall
    /\ UNCHANGED <<containers, interop, numThreads>>

Ops == {"transform", "predict", "predict_proba", "decision_function", "score_samples"}

\* One container, of any configuration, and its prediction calls.
Next ==
    \/ containers = <<>> /\ \E cfg \in Configs, ort \in BOOLEAN : Construct(cfg, ort)
    \/ \E i \in DOMAIN containers, op \in Ops, inputs \in Inputs : Call(i, op, inputs)
    \/ Return

Spec == Init /\ [][Next]_vars

\* Several Regression containers that differ in backend, thread count and
\* flags; the constructions given both flags fail.
PoolConfigs ==
    [backend : Backends, cls : {"Regression"}, n_threads : ThreadCounts,
     batch_size : {None}, extra_config : {<<>>}, model : [nIn : {1}, nOut : {1}, bias : {0}],
     is_regression : {TRUE}, is_anomaly_detection : BOOLEAN]

PoolInputs == {<<NdArray(<<r, 1>>, Column(r, 0))>> : r \in 1..MaxRows}

NextPool ==
    \/ Len(containers) < MaxContainers /\ \E cfg \in PoolConfigs : Construct(cfg, TRUE)
    \/ \E i \in DOMAIN containers, op \in Ops, inputs \in PoolInputs : Call(i, op, inputs)
    \/ Return

SpecPool == Init /\ [][NextPool]_vars

(***************************************************************************)
(* Properties.                                                             *)
(***************************************************************************)
IsCall == last.op \in Ops

IsConstruct == last.op = "construct"

\* The container the call that has just ended was made on.
Callee == containers[last.cid]

\* The j-th output of the wrapped model on what the call handed it.
BackendOutput(c, j, fed) ==
    IF c.backend = "onnx" THEN SessionRun(c, <<OutputName(j)>>, fed).items[1]
    ELSE Forward(c.model, fed).items[j]

BackendAccepted(c, fed) ==
    IF c.backend = "onnx" THEN ~IsErr(SessionRun(c, c.output_names, fed))
    ELSE ~IsErr(Forward(c.model, fed))

\* C1: on an anomaly detection container whose extra_config holds the offset
\* key, score_samples(x) fails exactly when decision_function(x) fails and
\* otherwise returns decision_function(x) with the offset added to every
\* element.
C1_ScoreSamplesIsDecisionFunctionPlusOffset ==
    (last.op = "score_samples" /\ OFFSET \in DOMAIN Callee.extra_config) =>
        LET d == Invoke(Callee, "decision_function", last.inputs).value
        IN  IF IsErr(d) THEN last.status = d.kind
            ELSE /\ last.status = "ok"
                 /\ last.value.kind = "ndarray"
                 /\ last.value.shape = d.shape
                 /\ last.value.flat =
                        [i \in 1..Len(d.flat) |-> d.flat[i] + Callee.extra_config[OFFSET]]

C1_Witness ==
    /\ last.op = "score_samples"
    /\ last.status = "ok"
    /\ OFFSET \in DOMAIN Callee.extra_config
    /\ Len(last.value.flat) >= 2

\* C2: on an anomaly detection container over a model with two outputs,
\* whenever the model accepts what it is handed, decision_function returns the
\* second output flattened to one dimension: unmodified when extra_config has
\* no threshold key, with the threshold added to every element when it has.
C2_DecisionFunctionShift ==
    (last.op = "decision_function" /\ Callee.model.nOut >= 2 /\ last.ran
        /\ BackendAccepted(Callee, last.fed)) =>
        LET raw == BackendOutput(Callee, 2, last.fed)
        IN  /\ last.status = "ok"
            /\ last.value.kind = "ndarray"
            /\ last.value.shape = <<Len(raw.flat)>>
            /\ IF IFOREST_THRESHOLD \in DOMAIN Callee.extra_config
               THEN last.value.flat =
                        [i \in 1..Len(raw.flat) |->
                            raw.flat[i] + Callee.extra_config[IFOREST_THRESHOLD]]
               ELSE last.value.flat = raw.flat

C2_Witness ==
    /\ last.op = "decision_function"
    /\ last.status = "ok"
    /\ Callee.model.nOut >= 2
    /\ IFOREST_THRESHOLD \in DOMAIN Callee.extra_config
    /\ Len(last.value.flat) >= 2

\* C3 as claimed: on every backend, constructing a Classification container
\* over a model whose number of outputs is not 2 (1, or more than 2) fails.
C3_Original ==
    (IsConstruct /\ last.cfg.cls = "Classification" /\ last.cfg.model.nOut # 2) =>
        last.status # "ok"

\* C4 as claimed: on an ONNX container with n input names called with k
\* inputs, the count is k, or the length of the first input when k < n (no
\* count when there is no first input or it has no length); the
\* session is run only if the count is n, on the mapping from the i-th name to
\* the i-th input, and the call fails with the assertion before the session is
\* run in every other case.
C4_Original ==
    (IsCall /\ Callee.backend = "onnx") =>
        LET n == Len(Callee.input_names)
            k == Len(last.inputs)
            u == IF k < n THEN last.inputs[1] ELSE PyList(last.inputs)
        IN  IF k < n /\ k = 0 THEN last.status = "AssertionError" /\ ~last.ran
            ELSE IF PyLen(u).err # "" \/ PyLen(u).len # n
            THEN last.status = "AssertionError" /\ ~last.ran
            ELSE last.ran =>
                    /\ DOMAIN last.fed = {Callee.input_names[i] : i \in 1..n}
                    /\ \A i \in 1..n :
                           last.fed[Callee.input_names[i]] = NpArray(GetItem(u, i - 1))

\* C5 as claimed: a call whose only input is a DataFrame with as many columns
\* as the model has inputs hands the model one array per column, in column
\* order, each of one column and as many rows as the frame.
C5_Original ==
    (IsCall /\ Callee.backend \in {"onnx", "torchscript"}
        /\ Len(last.inputs) = 1 /\ last.inputs[1].kind = "frame"
        /\ last.inputs[1].shape[2] = Callee.model.nIn) =>
        LET df == last.inputs[1]
            cols == SplitColumns(df)
            fed(j) == IF Callee.backend = "onnx" THEN last.fed[InputName(j)] ELSE last.fed[j]
        IN  /\ last.ran
            /\ \A j \in 1..df.shape[2] :
                   fed(j).shape = <<df.shape[1], 1>> /\ fed(j).flat = cols[j].flat

\* Whether the flags and the model's number of outputs are those the ONNX
\* class asserts.
ArgumentsFit(cfg) ==
    CASE cfg.cls = "Transformer" -> cfg.model.nOut = 1
      [] cfg.cls = "Regression" ->
            /\ ~(cfg.is_regression /\ cfg.is_anomaly_detection)
            /\ cfg.is_regression => cfg.model.nOut = 1
      [] OTHER -> cfg.model.nOut = 2

\* C6 as claimed: a constructor call without a thread count does not fail for
\* that reason (it fails only when onnxruntime is missing, both flags are
\* given or the ONNX model has the wrong number of outputs), and leaves the
\* intra-op thread count as it was.
C6_Original ==
    (IsConstruct /\ last.cfg.n_threads = None) =>
        /\ last.status # "ok" =>
              (last.cfg.backend = "onnx" /\ (~last.ort \/ ~ArgumentsFit(last.cfg)))
        /\ (last.status = "ok" /\ last.cfg.backend = "onnx") =>
              Callee.session.intra_op_num_threads = SessionOptions.intra_op_num_threads

\* C7 as claimed: every container has inter-op parallelism 1.
C7_Original ==
    \A i \in DOMAIN containers :
        IF containers[i].backend = "onnx"
        THEN containers[i].session.inter_op_num_threads = 1
        ELSE interop = 1

\* C7: every container constructed with a thread count has inter-op
\* parallelism 1 (and every PyTorch or TorchScript container is constructed
\* with one); an ONNX container constructed without a thread count keeps the
\* session options' defaults.
C7_InterOpOneWhenThreadCountGiven ==
    \A i \in DOMAIN containers :
        LET c == containers[i]
        IN  IF c.backend = "onnx"
            THEN IF c.n_threads # None
                 THEN /\ c.session.inter_op_num_threads = 1
                      /\ c.session.execution_mode = "ORT_SEQUENTIAL"
                 ELSE c.session = SessionOptions
            ELSE c.n_threads # None /\ interop = 1

C7_Witness ==
    /\ IsCall
    /\ Callee.backend # "onnx"
    /\ Callee.n_threads # None
    /\ last.status = "ok"

\* C8 as claimed: predict on a Regression container constructed as a regressor
\* (is_regression) returns one array of one dimension.
C8_Original ==
    (last.op = "predict" /\ Callee.cls = "Regression" /\ Callee.is_regression
        /\ last.status = "ok") =>
        (last.value.kind = "ndarray" /\ Len(last.value.shape) = 1)

\* The call that has just ended, made again with the same inputs on the
\* container as the call left it, ends the same way with the same value.
C9_RepeatedCallAgrees ==
    IsCall =>
        LET r == Invoke(Callee, last.op, last.inputs).value
        IN  IF IsErr(r) THEN last.status = r.kind
            ELSE last.status = "ok" /\ last.value = r

\* C9: a prediction call made twice with the same inputs ends the same way
\* with the same value both times, and no prediction call changes a container
\* (its model, extra_config, thread count, names, flags) or torch's thread
\* settings.
C9_CallsLeaveContainersAlone ==
    /\ []C9_RepeatedCallAgrees
    /\ [][(last.op = "none" /\ last'.op \in Ops) =>
            (containers' = containers /\ interop' = interop /\ numThreads' = numThreads)]_vars

C9_Witness ==
    /\ last.op = "decision_function"
    /\ Callee.backend = "torch"
    /\ IFOREST_THRESHOLD \in DOMAIN Callee.extra_config
    /\ last.status = "ok"

\* C10 as claimed: a prediction call on a PyTorch or TorchScript container
\* runs on the thread count the container was constructed with.
C10_Original ==
    (IsCall /\ Callee.backend # "onnx") => last.threads = Callee.n_threads[1]

\* A step that is a PyTorch or TorchScript constructor call given a thread
\* count, whether or not it ends with a container.
TorchConstruction ==
    /\ last.op = "none"
    /\ last'.op = "construct"
    /\ last'.cfg.backend # "onnx"
    /\ last'.cfg.n_threads # None

\* C10: a prediction call on an ONNX container runs on the thread count its
\* session was given at construction (the default without one); a prediction
\* call on a PyTorch or TorchScript container runs on torch's process-wide
\* thread count, which is the thread count given to the latest PyTorch or
\* TorchScript constructor call that was given one, whether that call ended
\* with a container or failed on its flags: such a call sets it, and no other
\* step changes it.
C10_ThreadsOfLatestTorchConstruction ==
    /\ [](IsCall =>
             IF Callee.backend = "onnx"
             THEN last.threads = IF Callee.n_threads = None
                                 THEN SessionOptions.intra_op_num_threads
                                 ELSE Callee.n_threads[1]
             ELSE last.threads = numThreads)
    /\ [][IF TorchConstruction THEN numThreads' = last'.cfg.n_threads[1]
          ELSE numThreads' = numThreads]_vars

\* A call on a PyTorch or TorchScript container that runs on a thread count no
\* PyTorch or TorchScript container was constructed with: that of a
\* constructor call that failed.
C10_Witness ==
    /\ IsCall
    /\ Callee.backend # "onnx"
    /\ last.status = "ok"
    /\ \A i \in DOMAIN containers :
           containers[i].backend # "onnx" => containers[i].n_threads[1] # last.threads

====
